---- MODULE Spec2Model ----
(***************************************************************************)
(* A model of misosoundbank.py: the sample-buffer transforms               *)
(* (segment_audio, apply_fade, normalize and the float <-> 16-bit          *)
(* conversions), the process_audio pipeline, and the MisoSoundLoader       *)
(* methods get_paths and get_audio.                                        *)
(*                                                                         *)
(* Numbers.  A float is modelled as an exact rational <<num, den>> with    *)
(* den > 0 (float32 rounding error is not modelled).  A time in seconds    *)
(* is an integer count of 1/TimeDen seconds.  None is the string "None"    *)
(* where no number is expected, and a named number otherwise.              *)
(***************************************************************************)
EXTENDS Integers, Sequences, FiniteSets, TLC

VARIABLES
    seg_pc, seg_y, seg_sr, seg_segment, seg_out,
    fade_pc, fade_y, fade_sr, fade_duration, fade_inout, fade_out,
    norm_pc, norm_y, norm_level, norm_method, norm_gain, norm_pcm, norm_out,
    proc_pc, proc_in, proc_y, proc_sr, proc_log,
    path_pc, path_ids, path_files, path_out,
    run_pc, run_cfg, run_avail, run_i, run_y, run_sr, run_available,
    run_fetched, run_orig, run_proc, run_audio, run_failed

segVars  == <<seg_pc, seg_y, seg_sr, seg_segment, seg_out>>
fadeVars == <<fade_pc, fade_y, fade_sr, fade_duration, fade_inout, fade_out>>
normVars == <<norm_pc, norm_y, norm_level, norm_method, norm_gain, norm_pcm, norm_out>>
procVars == <<proc_pc, proc_in, proc_y, proc_sr, proc_log>>
pathVars == <<path_pc, path_ids, path_files, path_out>>
runVars  == <<run_pc, run_cfg, run_avail, run_i, run_y, run_sr, run_available,
              run_fetched, run_orig, run_proc, run_audio, run_failed>>
vars     == <<segVars, fadeVars, normVars, procVars, pathVars, runVars>>

None == "None"

\* sr = None, as get_audio sets it after a download.
NoneRate == 0

(***************************************************************************)
(* Bounds of the model.                                                    *)
(***************************************************************************)
TimeDen    == 2    \* a time is a multiple of 1/TimeDen seconds
MaxTime    == 10   \* largest time, in units of 1/TimeDen seconds
MaxRate    == 3    \* largest sampling rate of the pure-function checks
MaxSamples == 10   \* longest buffer given to segment_audio
MaxFadeLen == 4    \* longest buffer given to apply_fade

(***************************************************************************)
(* Arithmetic helpers.                                                     *)
(***************************************************************************)
Abs(n) == IF n < 0 THEN -n ELSE n

Min(a, b) == IF a < b THEN a ELSE b

Max(a, b) == IF a > b THEN a ELSE b

\* int(n / d) for d > 0: Python's int() and a C float-to-integer cast
\* truncate toward zero.
Trunc(n, d) == IF n >= 0 THEN n \div d ELSE -((-n) \div d)

\* np.rint(n / d) for d > 0: round to nearest, ties to even.
Rint(n, d) ==
    LET f == n \div d
        r == n - f * d
    IN  IF 2 * r < d THEN f
        ELSE IF 2 * r > d THEN f + 1
        ELSE IF f % 2 = 0 THEN f ELSE f + 1

\* A Python slice bound i on a sequence of length n: a negative bound counts
\* from the end, and the result is clamped to [0, n].
SliceBound(i, n) == IF i < 0 THEN Max(i + n, 0) ELSE Min(i, n)

\* y[a:b] of Python (0-based, b exclusive) on the sequence y.
Slice(y, a, b) ==
    LET lo == SliceBound(a, Len(y))
        hi == SliceBound(b, Len(y))
    IN  IF lo >= hi THEN << >> ELSE SubSeq(y, lo + 1, hi)

(***************************************************************************)
(* segment_audio                                                           *)
(*                                                                         *)
(* y is a decoded buffer [kind |-> "buffer", samples] or a file name       *)
(* [kind |-> "path", samples, sr] (the file's content and native rate);    *)
(* segment is None, a pair [kind |-> "pair", start, stop] or a table file  *)
(* [kind |-> "table", start, stop] whose first row holds the pair.         *)
(***************************************************************************)
NoSegment == [kind |-> "none"]

\* pd.read_table(segment, header=None).values[0][:2] when segment is a
\* string; a pair or None is taken as given.
ReadSegment(segment) ==
    IF segment.kind = "table"
    THEN [kind |-> "pair", start |-> segment.start, stop |-> segment.stop]
    ELSE segment

\* offset = segment[0], or 0.0 without a segment.
SegOffset(seg) == IF seg.kind = "none" THEN 0 ELSE seg.start

\* duration = segment[1] - segment[0]; read only when a segment is given.
SegDuration(seg) == seg.stop - seg.start

\* The end index of the slice of an already-decoded buffer.
SegEndIndex(sr, offset, duration) == Rint(sr * (duration - offset), TimeDen)

\* librosa.load(path, sr=None, offset=offset, duration=duration): seek to
\* int(offset * sr_native), read int(duration * sr_native) frames (all the
\* remaining frames when duration is None).
LoadFile(file, seg) ==
    LET from == Trunc(SegOffset(seg) * file.sr, TimeDen)
        n    == IF seg.kind = "none" THEN Len(file.samples)
                ELSE Trunc(SegDuration(seg) * file.sr, TimeDen)
        lo   == Min(from, Len(file.samples))
        hi   == Min(lo + Max(n, 0), Len(file.samples))
    IN  IF lo >= hi THEN << >> ELSE SubSeq(file.samples, lo + 1, hi)

segment_audio(y, sr, segment) ==
    LET seg    == ReadSegment(segment)
        offset == SegOffset(seg)
    IN  IF y.kind = "path"
        THEN [y  |-> [kind |-> "buffer", samples |-> LoadFile(y, seg)],
              sr |-> y.sr]
        ELSE IF seg.kind = "none"
        THEN [y  |-> [kind |-> "buffer",
                      samples |-> Slice(y.samples, Rint(sr * offset, TimeDen),
                                        Len(y.samples))],
              sr |-> sr]
        ELSE [y  |-> [kind |-> "buffer",
                      samples |-> Slice(y.samples, Rint(sr * offset, TimeDen),
                                        SegEndIndex(sr, offset, SegDuration(seg)))],
              sr |-> sr]

\* A buffer of n samples; sample i carries the value i, so that a slice
\* shows where it was taken from.
Ramp(n) == [i \in 1..n |-> i]

SegSegments ==
    {NoSegment} \cup
    {s \in [kind : {"pair", "table"}, start : 0..MaxTime, stop : 0..MaxTime] :
        s.start < s.stop}

\* A file is decoded at its native rate (sr=None is passed on to librosa).
SegSources ==
    [kind : {"buffer"}, samples : {Ramp(n) : n \in 0..MaxSamples}] \cup
    [kind : {"path"}, samples : {Ramp(n) : n \in 0..MaxSamples},
     sr : 1..MaxRate]

SegIdle ==
    /\ seg_pc = "idle" /\ seg_y = None /\ seg_sr = None
    /\ seg_segment = None /\ seg_out = None

\* get_audio hands a file name over with sr=None, a buffer with its rate.
SegInit ==
    /\ seg_pc = "call"
    /\ seg_y \in SegSources
    /\ seg_sr \in IF seg_y.kind = "path" THEN {NoneRate} ELSE 1..MaxRate
    /\ seg_segment \in SegSegments
    /\ seg_out = None

SegmentAudio ==
    /\ seg_pc = "call"
    /\ seg_out' = segment_audio(seg_y, seg_sr, seg_segment)
    /\ seg_pc' = "done"
    /\ UNCHANGED <<seg_y, seg_sr, seg_segment>>
    /\ UNCHANGED <<fadeVars, normVars, procVars, pathVars, runVars>>

(***************************************************************************)
(* apply_fade                                                              *)
(*                                                                         *)
(* A sample is a rational <<num, den>>.  The result is [ok, y]: ok is      *)
(* FALSE when numpy raises ValueError (the slice and the curve cannot be   *)
(* broadcast together); y is the buffer, which is changed in place.        *)
(***************************************************************************)
\* length = int(duration * sr)
FadeLength(duration, sr) == Trunc(duration * sr, TimeDen)

\* np.linspace(1.0, 0.0, length)[i], i counted from 0.
FadeCurve(length, i) ==
    IF length = 1 THEN <<1, 1>> ELSE <<length - 1 - i, length - 1>>

\* The curve the code computes for the edge inout.
EdgeCurve(inout, length, i) == FadeCurve(length, i)

RatMul(a, b) == <<a[1] * b[1], a[2] * b[2]>>

RatEq(a, b) == a[1] * b[2] = b[1] * a[2]

RatLeq(a, b) == a[1] * b[2] <= b[1] * a[2]

\* y[start:end] = y[start:end] * fade_curve for one edge.
FadeEdge(r, length, inout) ==
    LET n     == Len(r.y)
        start == IF inout = "out" THEN n - length ELSE 0
        end   == IF inout = "out" THEN n ELSE length
        lo    == SliceBound(start, n)
        hi    == Max(lo, SliceBound(end, n))
        k     == hi - lo
    IN  IF ~r.ok THEN r
        ELSE IF k # length /\ length # 1 THEN [ok |-> FALSE, y |-> r.y]
        ELSE [ok |-> TRUE,
              y  |-> [i \in 1..n |->
                        IF lo < i /\ i <= hi
                        THEN RatMul(r.y[i], EdgeCurve(inout, length, i - lo - 1))
                        ELSE r.y[i]]]

apply_fade(y, sr, duration, inout) ==
    LET length == FadeLength(duration, sr)
        r0     == [ok |-> TRUE, y |-> y]
    IN  IF duration > 0
        THEN IF inout = "both"
             THEN FadeEdge(FadeEdge(r0, length, "in"), length, "out")
             ELSE FadeEdge(r0, length, inout)
        ELSE r0

\* The samples -1.0 and 0.5.
FadeSamples == {<<-1, 1>>, <<1, 2>>}

SeqsUpTo(S, n) == UNION {[1..k -> S] : k \in 0..n}

FadeIdle ==
    /\ fade_pc = "idle" /\ fade_y = None /\ fade_sr = None
    /\ fade_duration = None /\ fade_inout = None /\ fade_out = None

FadeInit ==
    /\ fade_pc = "call"
    /\ fade_y \in SeqsUpTo(FadeSamples, MaxFadeLen)
    /\ fade_sr \in 1..MaxRate
    /\ fade_duration \in 0..MaxTime
    /\ fade_inout \in {"in", "out", "both"}
    /\ fade_out = None

ApplyFade ==
    /\ fade_pc = "call"
    /\ fade_out' = apply_fade(fade_y, fade_sr, fade_duration, fade_inout)
    /\ fade_pc' = "done"
    /\ UNCHANGED <<fade_y, fade_sr, fade_duration, fade_inout>>
    /\ UNCHANGED <<segVars, normVars, procVars, pathVars, runVars>>

(***************************************************************************)
(* librosa_to_pydub, pydub_to_librosa, match_target_amplitude_pydub and    *)
(* normalize                                                               *)
(*                                                                         *)
(* A float sample is a rational <<num, den>>; a 16-bit sample is an        *)
(* integer in Int16Min..Int16Max.  A level in dB is an integer, NoneLevel  *)
(* standing for level=None.  A loudness is kept as the RMS amplitude it is *)
(* the logarithm of: dBFS = 20 log10(rms / FullScale), and minus infinity  *)
(* when rms = 0.                                                           *)
(***************************************************************************)
FullScale == 32768     \* 1 << 15, and pydub's max_possible_amplitude
Int16Max  == 32767     \* np.iinfo(np.int16).max
Int16Min  == -32768
NoneLevel == 999       \* level=None

\* The C cast of an out-of-range value to int16 is undefined: a build either
\* keeps the low 16 bits or saturates.
CastOutcomes == {"wrap", "saturate"}

Int16Cast(v, ub) ==
    IF Int16Min <= v /\ v <= Int16Max THEN v
    ELSE IF ub = "wrap" THEN ((v - Int16Min) % (2 * FullScale)) + Int16Min
    ELSE IF v > Int16Max THEN Int16Max ELSE Int16Min

\* np.array(y * (1 << 15), dtype=np.int16) on one float32 sample.
FloatToInt16(x, ub) == Int16Cast(Trunc(x[1] * FullScale, x[2]), ub)

librosa_to_pydub(y, ub) == [i \in 1..Len(y) |-> FloatToInt16(y[i], ub)]

\* fp_arr /= np.iinfo(samples[0].typecode).max on one sample.
Int16ToFloat(v) == <<v, Int16Max>>

pydub_to_librosa(pcm) == [i \in 1..Len(pcm) |-> Int16ToFloat(pcm[i])]

RECURSIVE IsqrtIn(_, _, _)
\* The largest r in lo..hi with r * r <= m (lo * lo <= m is given).
IsqrtIn(m, lo, hi) ==
    IF lo = hi THEN lo
    ELSE LET mid == (lo + hi + 1) \div 2
         IN  IF mid * mid <= m THEN IsqrtIn(m, mid, hi)
             ELSE IsqrtIn(m, lo, mid - 1)

Isqrt(m) == IsqrtIn(m, 0, FullScale)

RECURSIVE SumOver(_, _)
SumOver(f, n) == IF n = 0 THEN 0 ELSE f[n] + SumOver(f, n - 1)

\* audioop.rms: the integer part of sqrt(sum of squares / number of
\* samples), 0 for no samples.  The mean is summed as quotients and
\* remainders so that it stays within 32 bits.
Rms(pcm) ==
    LET n == Len(pcm)
        q == [i \in 1..n |-> (pcm[i] * pcm[i]) \div n]
        r == [i \in 1..n |-> (pcm[i] * pcm[i]) % n]
    IN  IF n = 0 THEN 0
        ELSE Isqrt(SumOver(q, n) + (SumOver(r, n) \div n))

\* round(FullScale * 10 ** (level / 20)): the RMS amplitude of loudness
\* level dBFS.
LevelAmplitude(level) ==
    CASE level = -23 -> 2320
      [] level = -18 -> 4125
      [] level = -12 -> 8231

\* level=-18.0, the default of match_target_amplitude_pydub.
DefaultPydubLevel == -18

\* audioop's fbound: clip to the 16-bit range, then floor.
Fbound(n, d) ==
    LET f == n \div d
    IN  IF f > Int16Max THEN Int16Max
        ELSE IF f < Int16Min THEN Int16Min ELSE f

\* change_in_dBFS = level - sound.dBFS, kept as the level and the measured
\* RMS; it is +infinity when the sound is silent.
GainDelta(level, pcm) ==
    [level |-> level, rms |-> Rms(pcm), infinite |-> Rms(pcm) = 0]

\* 0 * inf is NaN, and (int)floor(NaN) is undefined in C: the C audioop
\* stores the low 16 bits of the converted value, which are 0, and the
\* pure-Python audioop raises ValueError.
NanCastOutcomes == {"zero", "raise"}

\* sound.apply_gain(change_in_dBFS): audioop.mul by
\* 10 ** (change / 20) = LevelAmplitude(level) / rms.
apply_gain(pcm, gain) ==
    [i \in 1..Len(pcm) |->
        IF gain.infinite
        THEN IF pcm[i] = 0 THEN 0
             ELSE IF pcm[i] > 0 THEN Int16Max ELSE Int16Min
        ELSE Fbound(pcm[i] * LevelAmplitude(gain.level), gain.rms)]

match_target_amplitude_pydub(y, level, ub, nan) ==
    LET sound == librosa_to_pydub(y, ub)
        gain  == GainDelta(level, sound)
    IN  [gain   |-> gain,
         pcm    |-> sound,
         raised |-> /\ gain.infinite
                    /\ nan = "raise"
                    /\ \E i \in 1..Len(sound) : sound[i] = 0,
         y      |-> pydub_to_librosa(apply_gain(sound, gain))]

\* The level normalize hands to match_target_amplitude_pydub: level is a
\* named parameter of normalize, so it is never in kwargs, and the callee's
\* default applies.
PydubLevelArg(level) == DefaultPydubLevel

NoGain == [level |-> NoneLevel, rms |-> 0, infinite |-> FALSE]

\* tool: whether the external ffmpeg_normalize run succeeds.
normalize(y, level, method, tool, ub, nan) ==
    IF level # NoneLevel /\ method # None
    THEN IF method = "ffmpeg_normalize"
         THEN IF tool = "ok"
              THEN [kind |-> "external", samples |-> y, level |-> level,
                    gain |-> NoGain, pcm |-> << >>]
              ELSE [kind |-> "raise", samples |-> y, level |-> level,
                    gain |-> NoGain, pcm |-> << >>]
         ELSE LET r == match_target_amplitude_pydub(y, PydubLevelArg(level), ub, nan)
              IN  [kind |-> IF r.raised THEN "raise" ELSE "buffer",
                   samples |-> IF r.raised THEN y ELSE r.y,
                   level |-> level, gain |-> r.gain, pcm |-> r.pcm]
    ELSE [kind |-> "buffer", samples |-> y, level |-> level,
          gain |-> NoGain, pcm |-> << >>]

FloatDen   == 4    \* float samples are multiples of 1/FloatDen in [-1, 1]
MaxNormLen == 2    \* longest buffer given to normalize

NormSamples == {<<n, FloatDen>> : n \in (0 - FloatDen)..FloatDen}

NormLevels == {NoneLevel, -23, -18, -12}

NormMethods == {"ffmpeg_normalize", "pydub", None}

NormIdle ==
    /\ norm_pc = "idle" /\ norm_y = None /\ norm_level = None
    /\ norm_method = None /\ norm_gain = None /\ norm_pcm = None
    /\ norm_out = None

NormInit ==
    /\ norm_pc = "call"
    /\ norm_y \in UNION {[1..k -> NormSamples] : k \in 1..MaxNormLen}
    /\ norm_level \in NormLevels
    /\ norm_method \in NormMethods
    /\ norm_gain = NoGain
    /\ norm_pcm = << >>
    /\ norm_out = None

Normalize ==
    /\ norm_pc = "call"
    /\ \E tool \in {"ok", "fails"}, ub \in CastOutcomes, nan \in NanCastOutcomes :
         LET r == normalize(norm_y, norm_level, norm_method, tool, ub, nan)
         IN  /\ norm_out' = [kind |-> r.kind, samples |-> r.samples]
             /\ norm_gain' = r.gain
             /\ norm_pcm' = r.pcm
    /\ norm_pc' = "normalized"
    /\ UNCHANGED <<norm_y, norm_level, norm_method>>
    /\ UNCHANGED <<segVars, fadeVars, procVars, pathVars, runVars>>

\* librosa_to_pydub followed by pydub_to_librosa.
RoundTrip ==
    /\ norm_pc = "call"
    /\ \E ub \in CastOutcomes :
         /\ norm_pcm' = librosa_to_pydub(norm_y, ub)
         /\ norm_out' = [kind |-> "buffer",
                         samples |-> pydub_to_librosa(librosa_to_pydub(norm_y, ub))]
    /\ norm_pc' = "converted"
    /\ UNCHANGED <<norm_y, norm_level, norm_method, norm_gain>>
    /\ UNCHANGED <<segVars, fadeVars, procVars, pathVars, runVars>>

(***************************************************************************)
(* process_audio                                                           *)
(*                                                                         *)
(* The resampler and the external normalizer are collaborators, so a       *)
(* buffer is kept as the sequence of the transforms applied to the input:  *)
(* each entry [op, sr, arg] names the transform, the rate it was given and *)
(* its parameter.  proc_log records every call with its input buffer.      *)
(***************************************************************************)
MaxFadeTime == 2   \* largest fade_duration given to process_audio

ProcLevels == {NoneLevel, -23}

\* librosa.resample(y, orig_sr=sr, target_sr=target_sr)
Resampled(y, sr, target_sr) ==
    Append(y, [op |-> "resample", sr |-> sr, arg |-> target_sr])

\* normalize(y, sr=sr, level=norm_level): the identity without a level,
\* otherwise the output of the external tool.
Normalized(y, sr, level) ==
    IF level = NoneLevel THEN y
    ELSE Append(y, [op |-> "normalize", sr |-> sr, arg |-> level])

\* apply_fade(y, sr=sr, duration=fade_duration): the identity unless
\* duration > 0.
Faded(y, sr, duration) ==
    IF duration > 0
    THEN Append(y, [op |-> "fade", sr |-> sr, arg |-> duration])
    ELSE y

\* A process_audio that keeps handing on the rate of its input.
ProcRateArg_input(input_sr, sr) == input_sr

\* The rate process_audio passes to normalize and to apply_fade: sr, which
\* was overwritten by target_sr when the buffer was resampled.
ProcRateArg(input_sr, sr) == sr

ProcCall(fn, y, sr) == [fn |-> fn, y |-> y, sr |-> sr]

ProcIdle ==
    /\ proc_pc = "idle" /\ proc_in = None /\ proc_y = None
    /\ proc_sr = None /\ proc_log = None

ProcInit ==
    /\ proc_pc = "resample"
    /\ proc_in \in [sr : 1..MaxRate, target_sr : 1..MaxRate,
                    norm_level : ProcLevels, fade_duration : 0..MaxFadeTime]
    /\ proc_y = << >>
    /\ proc_sr = proc_in.sr
    /\ proc_log = << >>

\* if sr != target_sr: y = librosa.resample(...); sr = target_sr
ProcResample ==
    /\ proc_pc = "resample"
    /\ IF proc_sr # proc_in.target_sr
       THEN /\ proc_y' = Resampled(proc_y, proc_sr, proc_in.target_sr)
            /\ proc_sr' = proc_in.target_sr
            /\ proc_log' = Append(proc_log, ProcCall("resample", proc_y, proc_sr))
       ELSE UNCHANGED <<proc_y, proc_sr, proc_log>>
    /\ proc_pc' = "normalize"
    /\ UNCHANGED proc_in
    /\ UNCHANGED <<segVars, fadeVars, normVars, pathVars, runVars>>

\* The argument of apply_fade is evaluated first: normalize(y, sr=sr, ...).
\* The external tool may fail, which raises out of process_audio.
ProcNormalize ==
    /\ proc_pc = "normalize"
    /\ LET sr == ProcRateArg(proc_in.sr, proc_sr)
       IN  /\ proc_log' = Append(proc_log, ProcCall("normalize", proc_y, sr))
           /\ \E tool \in {"ok", "fails"} :
                IF tool = "ok" \/ proc_in.norm_level = NoneLevel
                THEN /\ proc_y' = Normalized(proc_y, sr, proc_in.norm_level)
                     /\ proc_pc' = "fade"
                ELSE /\ proc_y' = proc_y
                     /\ proc_pc' = "raised"
    /\ UNCHANGED <<proc_in, proc_sr>>
    /\ UNCHANGED <<segVars, fadeVars, normVars, pathVars, runVars>>

\* apply_fade(..., sr=sr, duration=fade_duration), then return (y, sr).  A
\* buffer shorter than the fade raises ValueError.
ProcFade ==
    /\ proc_pc = "fade"
    /\ LET sr == ProcRateArg(proc_in.sr, proc_sr)
       IN  /\ proc_log' = Append(proc_log, ProcCall("fade", proc_y, sr))
           /\ \E fits \in BOOLEAN :
                IF fits \/ proc_in.fade_duration <= 0
                THEN /\ proc_y' = Faded(proc_y, sr, proc_in.fade_duration)
                     /\ proc_pc' = "done"
                ELSE /\ proc_y' = proc_y
                     /\ proc_pc' = "raised"
    /\ UNCHANGED <<proc_in, proc_sr>>
    /\ UNCHANGED <<segVars, fadeVars, normVars, pathVars, runVars>>

(***************************************************************************)
(* MisoSoundLoader.get_paths                                               *)
(*                                                                         *)
(* A string is a sequence of one-character strings.  The remote listing    *)
(* is the sequence of its file keys; the result records the keys of        *)
(* audio_paths and label_paths in insertion order, or that the metadata    *)
(* lookup raised IndexError.                                               *)
(***************************************************************************)
Digits == <<"0", "1", "2", "3", "4", "5", "6", "7", "8", "9">>

RECURSIVE Str(_)
\* str(id) of a non-negative integer.
Str(n) ==
    IF n < 10 THEN <<Digits[n + 1]>>
    ELSE Str(n \div 10) \o <<Digits[(n % 10) + 1]>>

original_audio_name_end == <<"_", "o", "r", "i", "g", "i", "n", "a", "l">>

DotWav == <<".", "w", "a", "v">>

DotCsv == <<".", "c", "s", "v">>

\* Whether sub occurs in s at 0-based position p.
OccursAt(s, sub, p) ==
    /\ p + Len(sub) <= Len(s)
    /\ \A j \in 1..Len(sub) : s[p + j] = sub[j]

\* sub in s
Contains(s, sub) == \E p \in 0..Len(s) : OccursAt(s, sub, p)

\* s.split(sep)[0]: s up to the first occurrence of sep (all of s without).
SplitFirst(s, sep) ==
    IF Contains(s, sep)
    THEN LET p == CHOOSE q \in 0..Len(s) :
                    /\ OccursAt(s, sep, q)
                    /\ \A r \in 0..(q - 1) : ~OccursAt(s, sep, r)
         IN  SubSeq(s, 1, p)
    ELSE s

\* The test that selects file key for a requested id.
IdSelects(id, key) == Contains(key, Str(id) \o original_audio_name_end)

\* The test that selects file key when no ids are given.
AnySelects(key) ==
    Contains(key, original_audio_name_end) /\ ~Contains(key, DotCsv)

RECURSIVE AudioFList(_, _)
\* for id in ids: for f in files: if ...: audio_f_list.append(f)
AudioFList(ids, files) ==
    IF ids = << >> THEN << >>
    ELSE LET id == Head(ids)
         IN  SelectSeq(files, LAMBDA key : IdSelects(id, key))
             \o AudioFList(Tail(ids), files)

RECURSIVE DictKeys(_, _)
\* The keys of a dict filled in the order of ks: each key once, at its
\* first insertion.
DictKeys(ks, seen) ==
    IF ks = << >> THEN << >>
    ELSE IF Head(ks) \in seen THEN DictKeys(Tail(ks), seen)
    ELSE <<Head(ks)>> \o DictKeys(Tail(ks), seen \cup {Head(ks)})

get_paths(ids, files) ==
    LET audio_f_list == IF ~ids.given THEN SelectSeq(files, AnySelects)
                        ELSE AudioFList(ids.list, files)
        id_list == [i \in 1..Len(audio_f_list) |->
                      SplitFirst(audio_f_list[i], original_audio_name_end)]
        csv     == SelectSeq(files, LAMBDA key : Contains(key, DotCsv))
    IN  IF csv = << >>
        THEN [raised |-> TRUE, audio |-> << >>, label |-> << >>]
        ELSE [raised |-> FALSE,
              audio  |-> DictKeys(id_list, {}),
              label  |-> DictKeys(id_list, {})]

MaxIds == 2        \* longest list of requested ids

\* The ids a caller may ask for, and the ids of the files a listing may hold.
RequestIds == {1, 2, 3}

FileIds == <<1, 2, 11, 12>>

MetadataKey == <<"m", "e", "t", "a">> \o DotCsv

AudioKey(id) == Str(id) \o original_audio_name_end \o DotWav

RECURSIVE ListingOf(_, _)
\* The listing holding the audio files of the ids in keep, in the order of
\* FileIds from position k on.
ListingOf(keep, k) ==
    IF k > Len(FileIds) THEN << >>
    ELSE (IF FileIds[k] \in keep THEN <<AudioKey(FileIds[k])>> ELSE << >>)
         \o ListingOf(keep, k + 1)

Listings ==
    {ListingOf(keep, 1) \o tail :
        keep \in SUBSET {FileIds[k] : k \in 1..Len(FileIds)},
        tail \in {<< >>, <<MetadataKey>>}}

PathIdLists ==
    {[given |-> FALSE, list |-> << >>]} \cup
    {[given |-> TRUE, list |-> l] :
        l \in UNION {[1..k -> RequestIds] : k \in 1..MaxIds}}

PathIdle ==
    /\ path_pc = "idle" /\ path_ids = None /\ path_files = None
    /\ path_out = None

PathInit ==
    /\ path_pc = "call"
    /\ path_ids \in PathIdLists
    /\ path_files \in Listings
    /\ path_out = None

GetPaths ==
    /\ path_pc = "call"
    /\ path_out' = get_paths(path_ids, path_files)
    /\ path_pc' = "done"
    /\ UNCHANGED <<path_ids, path_files>>
    /\ UNCHANGED <<segVars, fadeVars, normVars, procVars, runVars>>

(***************************************************************************)
(* MisoSoundLoader.get_audio                                               *)
(*                                                                         *)
(* The items of audio_paths are numbered 1..n in iteration order;          *)
(* run_avail[i] tells whether is_available finds item i's boundary table.  *)
(* y is [kind, item, segmented, processed]: a downloaded file's name       *)
(* (kind "path") or a decoded buffer (kind "buffer").  Any step that does  *)
(* I/O or computes may raise; nothing in get_audio catches it.             *)
(***************************************************************************)
MaxItems   == 2        \* most items in audio_paths
TargetRate == 44100    \* target_sr=44100, process_audio's default

\* The native rates of the remote files.
NativeRates == {22050, 44100}

RunConfigs ==
    [save_original : BOOLEAN, save_processed : BOOLEAN,
     return_audio : BOOLEAN, segment_processed : BOOLEAN,
     process_func : {"process_audio", None}]

NoFailure == [item |-> 0, step |-> "none"]

UnsetY == [kind |-> "unset", item |-> 0, segmented |-> FALSE,
           processed |-> FALSE]

RunItems == 1..Len(run_avail)

\* A get_audio that never clears processed_available.
ProcessedAvailable_always(segment_processed, available) == TRUE

\* processed_available after the boundary lookup: True unless a segment is
\* wanted and is_available(segment_in_file_path) is False.
ProcessedAvailable(segment_processed, available) ==
    IF segment_processed THEN available ELSE TRUE

RunIdle ==
    /\ run_pc = "idle" /\ run_cfg = None /\ run_avail = << >>
    /\ run_i = 0 /\ run_y = None /\ run_sr = None /\ run_available = None
    /\ run_fetched = {} /\ run_orig = {} /\ run_proc = {}
    /\ run_audio = << >> /\ run_failed = None

RunInit ==
    /\ run_pc = "fetch"
    /\ run_cfg \in RunConfigs
    /\ run_avail \in UNION {[1..n -> BOOLEAN] : n \in 1..MaxItems}
    /\ run_i = 1
    /\ run_y = UnsetY
    /\ run_sr = NoneRate
    /\ run_available = TRUE
    /\ run_fetched = {}
    /\ run_orig = {}
    /\ run_proc = {}
    /\ run_audio = << >>
    /\ run_failed = NoFailure

\* y = download_from_url(...); sr = None, or y, sr = load_audio(...);
\* then processed_available = True.
RunFetch ==
    /\ run_pc = "fetch"
    /\ IF run_cfg.save_original
       THEN /\ run_y' = [kind |-> "path", item |-> run_i,
                         segmented |-> FALSE, processed |-> FALSE]
            /\ run_sr' = NoneRate
            /\ run_orig' = run_orig \cup {run_i}
       ELSE /\ run_y' = [kind |-> "buffer", item |-> run_i,
                         segmented |-> FALSE, processed |-> FALSE]
            /\ run_sr' \in NativeRates
            /\ run_orig' = run_orig
    /\ run_fetched' = run_fetched \cup {run_i}
    /\ run_available' = TRUE
    /\ run_pc' = "segment"
    /\ UNCHANGED <<run_cfg, run_avail, run_i, run_proc, run_audio, run_failed>>
    /\ UNCHANGED <<segVars, fadeVars, normVars, procVars, pathVars>>

\* segment_audio as get_audio sees it: a file name is decoded at the file's
\* native rate, a buffer is sliced and keeps its rate.
RunSegmentAudio(y, sr, native, with_segment) ==
    [y  |-> [kind |-> "buffer", item |-> y.item,
             segmented |-> with_segment, processed |-> y.processed],
     sr |-> IF y.kind = "path" THEN native ELSE sr]

\* The boundary lookup and segment_audio.
RunSegment ==
    /\ run_pc = "segment"
    /\ run_available' =
         ProcessedAvailable(run_cfg.segment_processed, run_avail[run_i])
    /\ \E native \in NativeRates :
         IF run_cfg.segment_processed /\ ~run_avail[run_i]
         THEN UNCHANGED <<run_y, run_sr>>
         ELSE LET r == RunSegmentAudio(run_y, run_sr, native,
                                       run_cfg.segment_processed)
              IN  /\ run_y' = r.y
                  /\ run_sr' = r.sr
    /\ run_pc' = "process"
    /\ UNCHANGED <<run_cfg, run_avail, run_i, run_fetched, run_orig, run_proc,
                   run_audio, run_failed>>
    /\ UNCHANGED <<segVars, fadeVars, normVars, procVars, pathVars>>

\* if processed_available: if process_func is not None:
\*     y, sr = process_func(y, sr=sr, **kwargs)
RunProcess ==
    /\ run_pc = "process"
    /\ IF run_available /\ run_cfg.process_func # None
       THEN /\ run_y' = [run_y EXCEPT !.processed = TRUE]
            /\ run_sr' = IF run_sr # TargetRate THEN TargetRate ELSE run_sr
       ELSE UNCHANGED <<run_y, run_sr>>
    /\ run_pc' = "save"
    /\ UNCHANGED <<run_cfg, run_avail, run_i, run_available, run_fetched,
                   run_orig, run_proc, run_audio, run_failed>>
    /\ UNCHANGED <<segVars, fadeVars, normVars, procVars, pathVars>>

\* if processed_available: if save_processed: save_audio(...)
RunSave ==
    /\ run_pc = "save"
    /\ run_proc' = IF run_available /\ run_cfg.save_processed
                   THEN run_proc \cup {run_i} ELSE run_proc
    /\ run_pc' = "append"
    /\ UNCHANGED <<run_cfg, run_avail, run_i, run_y, run_sr, run_available,
                   run_fetched, run_orig, run_audio, run_failed>>
    /\ UNCHANGED <<segVars, fadeVars, normVars, procVars, pathVars>>

\* if return_audio: audio.append(...); then the next item, or the return.
RunAppend ==
    /\ run_pc = "append"
    /\ run_audio' =
         IF run_cfg.return_audio
         THEN Append(run_audio,
                     [sig |-> run_y, sampling_rate |-> run_sr, id |-> run_i])
         ELSE run_audio
    /\ IF run_i < Len(run_avail)
       THEN /\ run_i' = run_i + 1
            /\ run_pc' = "fetch"
       ELSE /\ run_i' = run_i
            /\ run_pc' = "done"
    /\ UNCHANGED <<run_cfg, run_avail, run_y, run_sr, run_available,
                   run_fetched, run_orig, run_proc, run_failed>>
    /\ UNCHANGED <<segVars, fadeVars, normVars, procVars, pathVars>>

\* Whether the step at run_pc calls anything that can raise: the download or
\* the load; the HTTP HEAD of is_available, reading the table, decoding the
\* file; process_func; save_audio.
RunCanRaise ==
    \/ run_pc = "fetch"
    \/ run_pc = "segment" /\ (run_cfg.segment_processed \/ run_y.kind = "path")
    \/ run_pc = "process" /\ run_available /\ run_cfg.process_func # None
    \/ run_pc = "save" /\ run_available /\ run_cfg.save_processed

\* An exception leaves the for loop and get_audio: no later item is visited.
RunRaise ==
    /\ RunCanRaise
    /\ run_failed' = [item |-> run_i, step |-> run_pc]
    /\ run_pc' = "aborted"
    /\ UNCHANGED <<run_cfg, run_avail, run_i, run_y, run_sr, run_available,
                   run_fetched, run_orig, run_proc, run_audio>>
    /\ UNCHANGED <<segVars, fadeVars, normVars, procVars, pathVars>>

(***************************************************************************)
(* Specifications: one per component, the others idle.                     *)
(***************************************************************************)
SegSpecInit ==
    /\ SegInit /\ FadeIdle /\ NormIdle /\ ProcIdle /\ PathIdle /\ RunIdle

SegNext == SegmentAudio

SpecSeg == SegSpecInit /\ [][SegNext]_vars

FadeSpecInit ==
    /\ SegIdle /\ FadeInit /\ NormIdle /\ ProcIdle /\ PathIdle /\ RunIdle

FadeNext == ApplyFade

SpecFade == FadeSpecInit /\ [][FadeNext]_vars

NormSpecInit ==
    /\ SegIdle /\ FadeIdle /\ NormInit /\ ProcIdle /\ PathIdle /\ RunIdle

NormNext == Normalize \/ RoundTrip

SpecNorm == NormSpecInit /\ [][NormNext]_vars

ProcSpecInit ==
    /\ SegIdle /\ FadeIdle /\ NormIdle /\ ProcInit /\ PathIdle /\ RunIdle

ProcNext == ProcResample \/ ProcNormalize \/ ProcFade

SpecProc == ProcSpecInit /\ [][ProcNext]_vars

PathSpecInit ==
    /\ SegIdle /\ FadeIdle /\ NormIdle /\ ProcIdle /\ PathInit /\ RunIdle

PathNext == GetPaths

SpecPaths == PathSpecInit /\ [][PathNext]_vars

RunSpecInit ==
    /\ SegIdle /\ FadeIdle /\ NormIdle /\ ProcIdle /\ PathIdle /\ RunInit

RunNext ==
    \/ RunFetch \/ RunSegment \/ RunProcess \/ RunSave \/ RunAppend
    \/ RunRaise

SpecRun == RunSpecInit /\ [][RunNext]_vars

(***************************************************************************)
(* Claims.                                                                 *)
(***************************************************************************)
\* C1: for a decoded buffer of N samples at rate sr and an explicit boundary
\* (start, stop) with 0 <= start < stop and round(stop * sr) <= N,
\* segment_audio returns round((stop - start) * sr) samples, the first of
\* which is buffer[round(start * sr)].
C1_SegmentSpan ==
    (/\ seg_pc = "done"
     /\ seg_y.kind = "buffer"
     /\ seg_segment.kind = "pair"
     /\ Rint(seg_segment.stop * seg_sr, TimeDen) <= Len(seg_y.samples))
    => LET first == Rint(seg_segment.start * seg_sr, TimeDen)
           span  == Rint((seg_segment.stop - seg_segment.start) * seg_sr,
                         TimeDen)
       IN  /\ Len(seg_out.y.samples) = span
           /\ span > 0 => seg_out.y.samples[1] = seg_y.samples[first + 1]

\* The scale factor out / in of a sample, for in # 0, with a positive
\* denominator.
ScaleOf(out, in) ==
    IF in[1] > 0 THEN <<out[1] * in[2], out[2] * in[1]>>
    ELSE <<0 - (out[1] * in[2]), 0 - (out[2] * in[1])>>

\* C2: for a fade length L with 2 <= L < len(buffer), apply_fade with edge
\* "in" scales the first sample by 0.0, scales samples [0, L) by a
\* non-decreasing factor, and leaves the sample at index L unchanged.
C2_FadeInRamp ==
    LET L == FadeLength(fade_duration, fade_sr)
    IN  (/\ fade_pc = "done"
         /\ fade_inout = "in"
         /\ fade_duration > 0
         /\ 2 <= L
         /\ L < Len(fade_y))
        => /\ fade_out.ok
           /\ fade_out.y[1][1] = 0
           /\ \A i \in 1..(L - 1) :
                RatLeq(ScaleOf(fade_out.y[i], fade_y[i]),
                       ScaleOf(fade_out.y[i + 1], fade_y[i + 1]))
           /\ RatEq(fade_out.y[L + 1], fade_y[L + 1])

\* The 16-bit values of a buffer pydub_to_librosa returned.
PcmOf(samples) == [i \in 1..Len(samples) |-> samples[i][1]]

\* Whether the RMS amplitude rms is within 0.5 dB of level:
\* 10 ** (-0.5 / 20) = 0.944 and 10 ** (0.5 / 20) = 1.059.
WithinHalfDb(rms, level) ==
    /\ 944 * LevelAmplitude(level) <= 1000 * rms
    /\ 1000 * rms <= 1059 * LevelAmplitude(level)

\* C3: for a non-silent buffer and a target level L passed as level to
\* normalize with the gain-shift strategy, the gain delta applied is L minus
\* the measured loudness, and the loudness of the result is L within 0.5 dB.
C3_GainReachesLevel ==
    (/\ norm_pc = "normalized"
     /\ norm_method = "pydub"
     /\ norm_level # NoneLevel
     /\ ~norm_gain.infinite)
    => /\ norm_gain.level = norm_level
       /\ WithinHalfDb(Rms(PcmOf(norm_out.samples)), norm_level)

\* C4: for an all-silence buffer and any target level, normalize with the
\* gain-shift strategy applies no infinite gain and returns the buffer
\* unchanged.
C4_SilenceIsNoOp ==
    (/\ norm_pc = "normalized"
     /\ norm_method = "pydub"
     /\ norm_level # NoneLevel
     /\ \A i \in 1..Len(norm_y) : norm_y[i][1] = 0)
    => /\ ~norm_gain.infinite
       /\ norm_out.kind = "buffer"
       /\ Len(norm_out.samples) = Len(norm_y)
       /\ \A i \in 1..Len(norm_y) : RatEq(norm_out.samples[i], norm_y[i])

\* C9: for a float32 sample x in [-1.0, 1.0], the 16-bit value of
\* librosa_to_pydub is x * 32768 without leaving [-32768, 32767], and the
\* value pydub_to_librosa returns has the sign of x and is within 2 / 32768
\* of x.
C9_RoundTripInRange ==
    norm_pc = "converted"
    => \A i \in 1..Len(norm_y) :
         LET x      == norm_y[i]
             scaled == Trunc(x[1] * FullScale, x[2])
             back   == norm_out.samples[i]
         IN  /\ Int16Min <= scaled /\ scaled <= Int16Max
             /\ norm_pcm[i] = scaled
             /\ x[1] > 0 => back[1] >= 0
             /\ x[1] < 0 => back[1] <= 0
             /\ Abs(back[1] * x[2] - x[1] * back[2])
                  <= (2 * back[2] * x[2]) \div FullScale

\* C10: with an explicit list of ids, every identifier key of the bundles
\* get_paths returns is the string form of a requested id.
C10_OnlyRequestedIds ==
    (path_pc = "done" /\ path_ids.given)
    => \A k \in 1..Len(path_out.audio) :
         \E j \in 1..Len(path_ids.list) :
           path_out.audio[k] = Str(path_ids.list[j])

\* The configuration of C5: save_original, save_processed and
\* segment_processed all True.
C5Config ==
    /\ run_pc # "idle"
    /\ run_cfg.save_original
    /\ run_cfg.save_processed
    /\ run_cfg.segment_processed

\* C5: in a run with save_original, save_processed and segment_processed,
\* every identifier the loop has completed has its original file saved and
\* has a processed file exactly if its boundary table was available, so that
\* after the run this holds of every identifier; a missing boundary table
\* is never what ends the run.
C5_ProcessedIffBoundary ==
    C5Config
    => /\ \A i \in RunItems :
            (i < run_i \/ run_pc = "done")
            => /\ i \in run_orig
               /\ i \in run_proc <=> run_avail[i]
       /\ (run_pc = "process" /\ ~run_avail[run_i]) => ~run_available
       /\ (run_pc = "save" /\ ~run_avail[run_i]) => ~RunCanRaise

\* Two identifiers, one with a boundary table: after the run, two original
\* files and one processed file.
C5_Witness ==
    /\ C5Config
    /\ run_pc = "done"
    /\ Len(run_avail) = 2
    /\ run_avail[1] /\ ~run_avail[2]
    /\ Cardinality(run_orig) = 2
    /\ Cardinality(run_proc) = 1

\* C6: when get_audio has ended, every item other than one whose step
\* failed has been fetched.
C6_FailureIsolated ==
    run_pc \in {"done", "aborted"}
    => \A i \in RunItems : i # run_failed.item => i \in run_fetched

\* The calls process_audio makes, in order, for its input.
ProcExpectedCalls ==
    (IF proc_in.sr # proc_in.target_sr THEN <<"resample">> ELSE << >>)
    \o <<"normalize", "fade">>

\* C7: process_audio resamples (only when sr != target_sr), then normalizes,
\* then fades; normalize and fade are given the post-resample rate, fade is
\* given the output of normalize, and the returned rate is target_sr when
\* the buffer was resampled and the input rate otherwise.
C7_ProcessOrder ==
    proc_pc # "idle"
    => LET post == IF proc_in.sr # proc_in.target_sr
                   THEN proc_in.target_sr ELSE proc_in.sr
           k    == Len(proc_log)
       IN  /\ k <= Len(ProcExpectedCalls)
           /\ \A j \in 1..k :
                /\ proc_log[j].fn = ProcExpectedCalls[j]
                /\ proc_log[j].fn \in {"normalize", "fade"}
                   => proc_log[j].sr = post
                /\ proc_log[j].fn = "fade"
                   => proc_log[j].y = Normalized(proc_log[j - 1].y, post,
                                                 proc_in.norm_level)
           /\ proc_pc = "done"
              => /\ k = Len(ProcExpectedCalls)
                 /\ proc_sr = post

\* A resampled, normalized and faded buffer has been returned.
C7_Witness ==
    /\ proc_pc = "done"
    /\ proc_in.sr # proc_in.target_sr
    /\ proc_in.norm_level # NoneLevel
    /\ proc_in.fade_duration > 0
    /\ Len(proc_y) = 3

\* C8: every summary record get_audio appends holds a decoded buffer as its
\* signal and a positive integer as its sampling rate.
C8_RecordsAreDecoded ==
    \A k \in 1..Len(run_audio) :
        /\ run_audio[k].sig.kind = "buffer"
        /\ run_audio[k].sampling_rate # NoneRate
        /\ run_audio[k].sampling_rate > 0

====
